---- MODULE Spec2Model ----
(***************************************************************************)
(* ViewSync: the Session Registry / Gateway (server.js, kept here as       *)
(* src/unnamed/part_001) and the Local Relay of the client                 *)
(* (src/client/src/App.tsx).                                               *)
(*                                                                         *)
(* The gateway is a single-threaded Node process: every socket.on handler  *)
(* runs to completion, so each handler is one atomic action.               *)
(***************************************************************************)
EXTENDS Integers, Sequences, FiniteSets, TLC

\* ------------------------------------------------------------------ bounds
NConn == 3        \* sockets that connect
MaxCmds == 2      \* playback commands applied, over all rooms
NWin == 2         \* same-origin browsing contexts
MaxPub == 2       \* events published to the relay
MaxEnv == 1       \* steps of the viewer and of React on the players

Conns == 1..NConn
RoomIds == {1, 2}                 \* the uuidv4() room ids, in the order handed out
CmdConns == {1, 2}                \* the sockets that act where commands are followed
Times == {0, 1}
Undefined == "undefined"
CreateUrls == {"a"}
ChangeUrls == {"a", "b"}
Wins == 1..NWin
AppWins == {1}                    \* the contexts where clips are added
Clips == {"a", "b"}               \* the 11-character clip ids of the urls entered
Places == {1, 2}                  \* the places in the list of videos of a context
Handles == {1, 2}                 \* the YT.Player objects of a context, in order of creation
PlayerStates == {"PLAYING", "PAUSED", "ENDED", "BUFFERING"}

VARIABLES
    rooms,        \* const rooms = new Map(): roomId -> room
    created,      \* number of uuidv4() room ids handed out so far
    connected,    \* sockets whose connection is open
    channel,      \* socket.io rooms: roomId -> sockets that socket.join()ed it
    out,          \* the messages emitted by the last handler
    last,         \* the last event handled
    cmdLog,       \* history: per room, the commands applied to it, in order
    joinLog,      \* history: per room, its members in order of becoming a member
    deleted,      \* history: ids of rooms that were deleted
    inbox,        \* per socket, the server events in flight to its client
    local,        \* per socket, the playback state its client has applied
    winName,      \* per context, window.name
    bcAvail,      \* whether window.BroadcastChannel exists in this browser
    throws,       \* the relay transports that throw when used in this browser
    ytReady,      \* per context, whether window.YT.Player is loaded
    slot,         \* localStorage['viewsync_event']
    bcQueue,      \* per context, messages in flight to its 'viewsync' channel
    stQueue,      \* per context, storage events in flight to its listener
    clock,        \* Date.now(), counted in publishes
    winPlaying,   \* per context, the isPlaying state of App
    winTime,      \* per context, the currentTime state of App
    seen,         \* history: per context, the events its listener received
    applied,      \* history: per context, the events passed to handleSyncEvent
    published,    \* history: the events given to broadcastSyncEvent, and by whom
    videos,       \* per context, the videos state of App, each with its component's playerRef
    players,      \* per context, the YT.Player objects created, in order
    playersRef,   \* per context, playersRef.current: videoId -> player
    readyPlayers, \* per context, the readyPlayers state as last rendered
    readyQueued,  \* per context, the setReadyPlayers updates not rendered yet
    loopEnabled,  \* per context, the loopEnabled state of App
    job,          \* per context, the pending timers of playAll
    calls,        \* what the last handler of a context did
    envSteps      \* number of steps the viewer and React took on the players

serverVars == <<rooms, created, connected, channel, out, last, cmdLog, joinLog, deleted>>
clientVars == <<inbox, local>>
relayVars == <<winName, bcAvail, throws, ytReady, slot, bcQueue, stQueue, clock,
               winPlaying, winTime, seen, applied, published,
               videos, players, playersRef, readyPlayers, readyQueued,
               loopEnabled, job, calls, envSteps>>
vars == <<serverVars, clientVars, relayVars>>
otherVars == <<serverVars, clientVars, envSteps>>

\* ------------------------------------------------------- Map<socketId,user>
\* A JavaScript Map iterates in insertion order; it is kept as a sequence.
User(socketId, isHost) == [socketId |-> socketId, isHost |-> isHost]

UsersHas(users, socketId) == \E i \in 1..Len(users) : users[i].socketId = socketId

UsersGet(users, socketId) ==
    users[CHOOSE i \in 1..Len(users) : users[i].socketId = socketId]

\* Map.prototype.set: an existing key keeps its place and gets the new value.
UsersSet(users, socketId, user) ==
    IF UsersHas(users, socketId)
    THEN [i \in 1..Len(users) |->
             IF users[i].socketId = socketId THEN user ELSE users[i]]
    ELSE Append(users, user)

UsersDelete(users, socketId) == SelectSeq(users, LAMBDA u : u.socketId # socketId)

SocketIds(users) == {users[i].socketId : i \in 1..Len(users)}

Hosts(users) == {users[i].socketId : i \in {j \in 1..Len(users) : users[j].isHost}}

\* videoUrl || ''
OrEmpty(videoUrl) == IF videoUrl = Undefined \/ videoUrl = "" THEN "" ELSE videoUrl

RoomSnapshot(roomId, room) ==
    [id |-> roomId, videoUrl |-> room.videoUrl,
     isPlaying |-> room.isPlaying, currentTime |-> room.currentTime]

NoSnapshot == [id |-> 0, videoUrl |-> "", isPlaying |-> FALSE, currentTime |-> 0]

Msg(to, ev, room, user, users, currentTime, videoUrl) ==
    [to |-> to, ev |-> ev, room |-> room, user |-> user, users |-> users,
     currentTime |-> currentTime, videoUrl |-> videoUrl]

NoUser == User(0, FALSE)

Event(op, socket, roomId, host) ==
    [op |-> op, socket |-> socket, roomId |-> roomId, host |-> host]

\* (socket.broadcast: every socket in any channel except the sender)
SocketBroadcast(chan, socket, roomId) == (UNION {chan[r] : r \in DOMAIN chan}) \ {socket}

\* socket.to(roomId): every socket in the channel except the sender.
SocketTo(chan, socket, roomId) == chan[roomId] \ {socket}

\* io.to(roomId): every socket in the channel.
IoTo(chan, roomId) == chan[roomId]

RemoveRoom(rs, roomId) == [r \in (DOMAIN rs) \ {roomId} |-> rs[r]]

RemoveMember(seq, socket) == SelectSeq(seq, LAMBDA s : s # socket)

Min(S) == CHOOSE x \in S : \A y \in S : x <= y

\* window.open(url, windowId): a sync window is named after what it shows;
\* a tab the user opened has the empty name.
SyncName(w) == ToString(w)

WindowNames == {""} \cup {SyncName(w) : w \in Wins}

\* localStorage.getItem of a key never set
NoItem == <<"null">>

\* the timers of playAll: none is pending
NoJob == [phase |-> "none"]

InitGateway ==
    /\ rooms = << >>
    /\ created = 0
    /\ connected = Conns
    /\ channel = [r \in RoomIds |-> {}]
    /\ out = {}
    /\ last = Event("init", 0, 0, FALSE)
    /\ cmdLog = [r \in RoomIds |-> << >>]
    /\ joinLog = [r \in RoomIds |-> << >>]
    /\ deleted = {}
    /\ inbox = [c \in Conns |-> << >>]
    /\ local = [c \in Conns |-> [isPlaying |-> FALSE, currentTime |-> 0]]

\* the contexts of one browser, each a fresh App
InitContextsWhere(names, broadcastChannel, thrown) ==
    /\ winName = names
    /\ bcAvail = broadcastChannel
    /\ throws = thrown
    /\ ytReady = [w \in Wins |-> FALSE]
    /\ slot = NoItem
    /\ bcQueue = [w \in Wins |-> << >>]
    /\ stQueue = [w \in Wins |-> << >>]
    /\ clock = 0
    /\ winPlaying = [w \in Wins |-> FALSE]
    /\ winTime = [w \in Wins |-> 0]
    /\ seen = [w \in Wins |-> {}]
    /\ applied = [w \in Wins |-> {}]
    /\ published = << >>
    /\ videos = [w \in Wins |-> << >>]
    /\ players = [w \in Wins |-> << >>]
    /\ playersRef = [w \in Wins |-> << >>]
    /\ readyPlayers = [w \in Wins |-> << >>]
    /\ readyQueued = [w \in Wins |-> << >>]
    /\ loopEnabled = [w \in Wins |-> FALSE]
    /\ job = [w \in Wins |-> NoJob]
    /\ calls = [op |-> "init"]
    /\ envSteps = 0

\* ... in a browser whose transports work
InitContexts(names, broadcastChannel) == InitContextsWhere(names, broadcastChannel, {})

\* the gateway and its clients; the contexts are tabs the user opened
Init ==
    /\ InitGateway
    /\ InitContexts([w \in Wins |-> ""], TRUE)

\* the contexts: each a tab the user opened or a named sync window, in a
\* browser with or without BroadcastChannel
InitRelay ==
    /\ InitGateway
    /\ \E names \in [Wins -> WindowNames], broadcastChannel \in BOOLEAN :
           /\ \A w \in Wins : names[w] \in {"", SyncName(w)}
           /\ InitContexts(names, broadcastChannel)

\* ------------------------------------------------------------- join-room
\* (a join that creates the missing room instead of refusing)
JoinRoomAutoCreate(socket, roomId) ==
    LET user == User(socket, TRUE)
        room == [videoUrl |-> "", isPlaying |-> FALSE, currentTime |-> 0,
                 users |-> <<user>>]
    IN  /\ rooms' = [r \in (DOMAIN rooms) \cup {roomId} |->
                        IF r = roomId THEN room ELSE rooms[r]]
        /\ channel' = [channel EXCEPT ![roomId] = @ \cup {socket}]
        /\ out' = {Msg(socket, "room-joined", RoomSnapshot(roomId, room), user, room.users, 0, "")}
        /\ joinLog' = [joinLog EXCEPT ![roomId] = <<socket>>]

JoinRoomNotFound(socket, roomId) ==
    /\ out' = {Msg(socket, "error", NoSnapshot, NoUser, << >>, 0, "")}
    /\ UNCHANGED <<rooms, channel, joinLog>>

JoinIsHost(users) == Len(users) = 0

JoinRoomFound(socket, roomId) ==
    LET room == rooms[roomId]
        user == User(socket, JoinIsHost(room.users))
        users == UsersSet(room.users, socket, user)
    IN  /\ rooms' = [rooms EXCEPT ![roomId].users = users]
        /\ channel' = [channel EXCEPT ![roomId] = @ \cup {socket}]
        /\ out' = {Msg(socket, "room-joined", RoomSnapshot(roomId, room), user, users, 0, "")}
                  \cup {Msg(to, "user-joined", NoSnapshot, user, users, 0, "") :
                            to \in SocketTo(channel', socket, roomId)}
        /\ joinLog' = [joinLog EXCEPT ![roomId] =
                          IF socket \in SocketIds(room.users) THEN @ ELSE Append(@, socket)]

JoinRoom(socket, roomId) ==
    /\ socket \in connected
    /\ IF roomId \notin DOMAIN rooms
       THEN JoinRoomNotFound(socket, roomId)
       ELSE JoinRoomFound(socket, roomId)
    /\ last' = Event("join-room", socket, roomId, FALSE)
    /\ UNCHANGED <<created, connected, cmdLog, deleted>>

\* ----------------------------------------------------------- create-room
CreateRoom(socket, videoUrl) ==
    /\ socket \in connected
    /\ created + 1 \in RoomIds
    /\ LET roomId == created + 1
           user == User(socket, TRUE)
           room == [videoUrl |-> OrEmpty(videoUrl), isPlaying |-> FALSE,
                    currentTime |-> 0, users |-> <<user>>]
       IN  /\ rooms' = [r \in (DOMAIN rooms) \cup {roomId} |->
                           IF r = roomId THEN room ELSE rooms[r]]
           /\ created' = roomId
           /\ channel' = [channel EXCEPT ![roomId] = @ \cup {socket}]
           /\ out' = {Msg(socket, "room-created", RoomSnapshot(roomId, room),
                          user, room.users, 0, "")}
           /\ joinLog' = [joinLog EXCEPT ![roomId] = <<socket>>]
           /\ last' = Event("create-room", socket, roomId, FALSE)
    /\ UNCHANGED <<connected, cmdLog, deleted>>

\* ------------------------------------------------- play / pause / seek
ApplyPlay(room, currentTime) ==
    [room EXCEPT !.isPlaying = TRUE, !.currentTime = currentTime]

ApplyPause(room, currentTime) ==
    [room EXCEPT !.isPlaying = FALSE, !.currentTime = currentTime]

\* (a seek that also pauses)
ApplySeekPausing(room, currentTime) ==
    [room EXCEPT !.isPlaying = FALSE, !.currentTime = currentTime]

ApplySeek(room, currentTime) ==
    [room EXCEPT !.currentTime = currentTime]

\* (a media change that keeps the old position)
ApplyChangeVideoKeepingTime(room, videoUrl) ==
    [room EXCEPT !.videoUrl = videoUrl, !.isPlaying = FALSE]

ApplyChangeVideo(room, videoUrl) ==
    [room EXCEPT !.videoUrl = videoUrl, !.isPlaying = FALSE, !.currentTime = 0]

RECURSIVE Applied(_, _)
Applied(log, R) ==
    IF R = {} THEN 0
    ELSE LET r == CHOOSE x \in R : TRUE IN Len(log[r]) + Applied(log, R \ {r})

CommandsLeft == Applied(cmdLog, RoomIds) < MaxCmds

Logged(roomId, kind, currentTime, videoUrl) ==
    cmdLog' = [cmdLog EXCEPT ![roomId] =
                  Append(@, [kind |-> kind, currentTime |-> currentTime,
                             videoUrl |-> videoUrl])]

Play(socket, roomId, currentTime) ==
    /\ socket \in connected
    /\ CommandsLeft
    /\ IF roomId \in DOMAIN rooms
       THEN /\ rooms' = [rooms EXCEPT ![roomId] = ApplyPlay(@, currentTime)]
            /\ out' = {Msg(to, "play", NoSnapshot, NoUser, << >>, currentTime, "") :
                          to \in SocketTo(channel, socket, roomId)}
            /\ Logged(roomId, "play", currentTime, "")
       ELSE /\ out' = {}
            /\ UNCHANGED <<rooms, cmdLog>>
    /\ last' = Event("play", socket, roomId, FALSE)
    /\ UNCHANGED <<created, connected, channel, joinLog, deleted>>

Pause(socket, roomId, currentTime) ==
    /\ socket \in connected
    /\ CommandsLeft
    /\ IF roomId \in DOMAIN rooms
       THEN /\ rooms' = [rooms EXCEPT ![roomId] = ApplyPause(@, currentTime)]
            /\ out' = {Msg(to, "pause", NoSnapshot, NoUser, << >>, currentTime, "") :
                          to \in SocketTo(channel, socket, roomId)}
            /\ Logged(roomId, "pause", currentTime, "")
       ELSE /\ out' = {}
            /\ UNCHANGED <<rooms, cmdLog>>
    /\ last' = Event("pause", socket, roomId, FALSE)
    /\ UNCHANGED <<created, connected, channel, joinLog, deleted>>

Seek(socket, roomId, currentTime) ==
    /\ socket \in connected
    /\ CommandsLeft
    /\ IF roomId \in DOMAIN rooms
       THEN /\ rooms' = [rooms EXCEPT ![roomId] = ApplySeek(@, currentTime)]
            /\ out' = {Msg(to, "seek", NoSnapshot, NoUser, << >>, currentTime, "") :
                          to \in SocketTo(channel, socket, roomId)}
            /\ Logged(roomId, "seek", currentTime, "")
       ELSE /\ out' = {}
            /\ UNCHANGED <<rooms, cmdLog>>
    /\ last' = Event("seek", socket, roomId, FALSE)
    /\ UNCHANGED <<created, connected, channel, joinLog, deleted>>

\* ---------------------------------------------------------- change-video
ChangeVideo(socket, roomId, videoUrl) ==
    /\ socket \in connected
    /\ CommandsLeft
    /\ IF roomId \in DOMAIN rooms
       THEN /\ rooms' = [rooms EXCEPT ![roomId] = ApplyChangeVideo(@, videoUrl)]
            /\ out' = {Msg(to, "video-changed", NoSnapshot, NoUser, << >>, 0, videoUrl) :
                          to \in IoTo(channel, roomId)}
            /\ Logged(roomId, "change-video", 0, videoUrl)
       ELSE /\ out' = {}
            /\ UNCHANGED <<rooms, cmdLog>>
    /\ last' = Event("change-video", socket, roomId, FALSE)
    /\ UNCHANGED <<created, connected, channel, joinLog, deleted>>

\* ------------------------------------------------------------ disconnect
\* newHost = room.users.values().next().value; newHost.isHost = true
\* (promotion of the most recent member instead of the first)
PromoteHostLast(users) ==
    [i \in 1..Len(users) |->
        IF i = Len(users) THEN [users[i] EXCEPT !.isHost = TRUE] ELSE users[i]]

PromoteHost(users) ==
    [i \in 1..Len(users) |-> IF i = 1 THEN [users[i] EXCEPT !.isHost = TRUE] ELSE users[i]]

\* (a disconnect that never deletes)
RoomIsEmptyNever(users) == FALSE

RoomIsEmpty(users) == Len(users) = 0

\* for (const [roomId, room] of rooms.entries()) { if (room.users.has(socket.id)) {... break;} }
\* rooms iterates in insertion order, which is the order the ids were handed out.
DisconnectRooms(socket) ==
    LET hit == {r \in DOMAIN rooms : UsersHas(rooms[r].users, socket)}
    IN  IF hit = {} THEN {} ELSE {Min(hit)}

Disconnect(socket) ==
    /\ socket \in connected
    /\ connected' = connected \ {socket}
    \* socket.io takes a closing socket out of every channel before 'disconnect' fires
    /\ channel' = [r \in RoomIds |-> channel[r] \ {socket}]
    /\ IF DisconnectRooms(socket) = {}
       THEN /\ out' = {}
            /\ last' = Event("disconnect", socket, 0, FALSE)
            /\ UNCHANGED <<rooms, joinLog, deleted>>
       ELSE LET roomId == CHOOSE r \in DisconnectRooms(socket) : TRUE
                room == rooms[roomId]
                user == UsersGet(room.users, socket)
                rest == UsersDelete(room.users, socket)
                users == IF user.isHost /\ Len(rest) > 0 THEN PromoteHost(rest) ELSE rest
            IN  /\ IF RoomIsEmpty(users)
                   THEN /\ rooms' = RemoveRoom(rooms, roomId)
                        /\ deleted' = deleted \cup {roomId}
                        /\ out' = {}
                   ELSE /\ rooms' = [rooms EXCEPT ![roomId].users = users]
                        /\ deleted' = deleted
                        /\ out' = {Msg(to, "user-left", NoSnapshot, user, users, 0, "") :
                                      to \in SocketTo(channel', socket, roomId)}
                /\ joinLog' = [joinLog EXCEPT ![roomId] = RemoveMember(@, socket)]
                /\ last' = Event("disconnect", socket, roomId, user.isHost)
    /\ UNCHANGED <<created, cmdLog>>

\* ---------------------------------------------- the registry: membership
\* (a socket joins a room once here: a repeated join-room changes the isHost
\* flags alone, which no command reads; Spec follows those)
FirstJoin(socket, roomId) ==
    roomId \in DOMAIN rooms => socket \notin SocketIds(rooms[roomId].users)

Next ==
    \/ \E s \in Conns, r \in RoomIds : JoinRoom(s, r) /\ UNCHANGED <<clientVars, relayVars>>
    \/ \E s \in Conns : CreateRoom(s, Undefined) /\ UNCHANGED <<clientVars, relayVars>>
    \/ \E s \in Conns : Disconnect(s) /\ UNCHANGED <<clientVars, relayVars>>

Spec == Init /\ [][Next]_vars

\* ------------------------------------------- the gateway: playback commands
NextCmd ==
    \/ \E s \in CmdConns, r \in RoomIds :
           FirstJoin(s, r) /\ JoinRoom(s, r) /\ UNCHANGED <<clientVars, relayVars>>
    \/ \E s \in CmdConns, u \in CreateUrls : CreateRoom(s, u) /\ UNCHANGED <<clientVars, relayVars>>
    \/ \E s \in CmdConns, r \in RoomIds, t \in Times : Play(s, r, t) /\ UNCHANGED <<clientVars, relayVars>>
    \/ \E s \in CmdConns, r \in RoomIds, t \in Times : Pause(s, r, t) /\ UNCHANGED <<clientVars, relayVars>>
    \/ \E s \in CmdConns, r \in RoomIds, t \in Times : Seek(s, r, t) /\ UNCHANGED <<clientVars, relayVars>>
    \/ \E s \in CmdConns, r \in RoomIds, u \in ChangeUrls : ChangeVideo(s, r, u) /\ UNCHANGED <<clientVars, relayVars>>
    \/ \E s \in CmdConns : Disconnect(s) /\ UNCHANGED <<clientVars, relayVars>>

SpecCmd == Init /\ [][NextCmd]_vars

\* ------------------------------------------------ the clients of a room
\* socket.emit / socket.to(..).emit: each message joins the queue of its socket.
Sent(box, msgs) ==
    [c \in Conns |->
        IF \E m \in msgs : m.to = c
        THEN Append(box[c], CHOOSE m \in msgs : m.to = c)
        ELSE box[c]]

Playback(playing, time) == [isPlaying |-> playing, currentTime |-> time]

\* what a client's aggregator does with an event of the gateway
LocalApply(state, m) ==
    CASE m.ev = "play" -> Playback(TRUE, m.currentTime)
      [] m.ev = "pause" -> Playback(FALSE, m.currentTime)
      [] m.ev = "seek" -> Playback(state.isPlaying, m.currentTime)
      [] m.ev = "video-changed" -> Playback(FALSE, 0)
      [] m.ev \in {"room-created", "room-joined"} ->
             Playback(m.room.isPlaying, m.room.currentTime)
      [] OTHER -> state

\* the client knows it is in the room: it is a participant and has applied the
\* room-created / room-joined answer
InRoom(socket, roomId) ==
    /\ roomId \in DOMAIN rooms
    /\ socket \in SocketIds(rooms[roomId].users)
    /\ \A i \in 1..Len(inbox[socket]) :
           inbox[socket][i].ev \notin {"room-created", "room-joined"}

ClientCreate(socket, videoUrl) ==
    /\ created = 0
    /\ CreateRoom(socket, videoUrl)
    /\ inbox' = Sent(inbox, out')
    /\ UNCHANGED local

ClientJoin(socket, roomId) ==
    /\ roomId \in DOMAIN rooms
    /\ FirstJoin(socket, roomId)
    /\ JoinRoom(socket, roomId)
    /\ inbox' = Sent(inbox, out')
    /\ UNCHANGED local

\* a user action: applied to the local surfaces, and sent to the gateway
ClientPlay(socket, roomId, time) ==
    /\ InRoom(socket, roomId)
    /\ Play(socket, roomId, time)
    /\ local' = [local EXCEPT ![socket] = Playback(TRUE, time)]
    /\ inbox' = Sent(inbox, out')

ClientPause(socket, roomId, time) ==
    /\ InRoom(socket, roomId)
    /\ Pause(socket, roomId, time)
    /\ local' = [local EXCEPT ![socket] = Playback(FALSE, time)]
    /\ inbox' = Sent(inbox, out')

ClientSeek(socket, roomId, time) ==
    /\ InRoom(socket, roomId)
    /\ Seek(socket, roomId, time)
    /\ local' = [local EXCEPT ![socket] = Playback(@.isPlaying, time)]
    /\ inbox' = Sent(inbox, out')

\* the next event of the gateway reaches the client and is applied
ClientApply(socket) ==
    /\ inbox[socket] # << >>
    /\ local' = [local EXCEPT ![socket] = LocalApply(@, Head(inbox[socket]))]
    /\ inbox' = [inbox EXCEPT ![socket] = Tail(@)]
    /\ UNCHANGED serverVars

NextConv ==
    \/ \E s \in CmdConns, u \in CreateUrls : ClientCreate(s, u) /\ UNCHANGED relayVars
    \/ \E s \in CmdConns, r \in RoomIds : ClientJoin(s, r) /\ UNCHANGED relayVars
    \/ \E s \in CmdConns, r \in RoomIds, t \in Times : ClientPlay(s, r, t) /\ UNCHANGED relayVars
    \/ \E s \in CmdConns, r \in RoomIds, t \in Times : ClientPause(s, r, t) /\ UNCHANGED relayVars
    \/ \E s \in CmdConns, r \in RoomIds, t \in Times : ClientSeek(s, r, t) /\ UNCHANGED relayVars
    \/ \E s \in CmdConns : ClientApply(s) /\ UNCHANGED relayVars

SpecConv == Init /\ [][NextConv]_vars

\* ---------------------------------------------------------- Local Relay
\* window.name || 'main'
Identity(name) == IF name = "" THEN "main" ELSE name

SyncEvent(type, data, timestamp, windowId) ==
    [type |-> type, data |-> data, timestamp |-> timestamp, windowId |-> windowId]

\* JSON.stringify / JSON.parse of an event of strings and numbers
Stringify(event) == <<"json", event>>
Parse(item) == item[2]

\* what the last handler did: the handler, its context, the player and the
\* cause it was about, and the player methods it called, in order
Made(player, method, threw) == [player |-> player, method |-> method, threw |-> threw]

Call(op, w, player, cause, made) ==
    [op |-> op, w |-> w, player |-> player, cause |-> cause, made |-> made]

\* ------------------------------------------------------- YT.Player objects
\* A player of a context is known by its index in players[w], the order of
\* new YT.Player(...).  A call on a destroyed player does nothing or throws.
NewPlayer(videoId) ==
    [videoId |-> videoId, state |-> "UNSTARTED", signal |-> FALSE,
     cause |-> "", ready |-> FALSE, dead |-> FALSE]

Changed(p, state, cause) ==
    [p EXCEPT !.state = state, !.signal = TRUE, !.cause = cause]

\* player.playVideo()
PlayVideo(p, cause) ==
    IF p.state \in {"UNSTARTED", "CUED", "PAUSED", "ENDED"}
    THEN Changed(p, "PLAYING", cause) ELSE p

\* player.pauseVideo()
PauseVideo(p, cause) ==
    IF p.state \in {"PLAYING", "BUFFERING"} THEN Changed(p, "PAUSED", cause) ELSE p

\* player.seekTo(seconds, true): a paused player stays paused, from any other
\* state the player plays
SeekTo(p, cause) ==
    IF p.state \in {"PAUSED", "PLAYING", "BUFFERING"}
    THEN p ELSE Changed(p, "PLAYING", cause)

Invoke(p, method, cause) ==
    IF p.dead THEN p
    ELSE CASE method = "playVideo" -> PlayVideo(p, cause)
           [] method = "pauseVideo" -> PauseVideo(p, cause)
           [] method = "seekTo" -> SeekTo(p, cause)
           [] OTHER -> p

\* player.destroy(): the iframe is gone, no signal is owed any more
Destroyed(p) == [p EXCEPT !.dead = TRUE, !.signal = FALSE]

\* ---------------------------------------------- playersRef.current: an object
\* Object.entries / Object.values iterate string keys in insertion order.
Entry(videoId, player) == [videoId |-> videoId, player |-> player]

RefHas(ref, videoId) == \E i \in 1..Len(ref) : ref[i].videoId = videoId

RefGet(ref, videoId) == ref[CHOOSE i \in 1..Len(ref) : ref[i].videoId = videoId].player

RefSet(ref, videoId, player) ==
    IF RefHas(ref, videoId)
    THEN [i \in 1..Len(ref) |->
             IF ref[i].videoId = videoId THEN Entry(videoId, player) ELSE ref[i]]
    ELSE Append(ref, Entry(videoId, player))

RefDelete(ref, videoId) == SelectSeq(ref, LAMBDA e : e.videoId # videoId)

RefPlayers(ref) == {ref[i].player : i \in 1..Len(ref)}

Range(seq) == {seq[i] : i \in 1..Len(seq)}

\* new Set([...prev, videoId]), kept in the order of insertion
SetAdd(set, videoId) == IF videoId \in Range(set) THEN set ELSE Append(set, videoId)

\* the queued updaters prev => new Set([...prev, videoId]), applied in order
RECURSIVE SetAddAll(_, _)
SetAddAll(set, videoIds) ==
    IF videoIds = << >> THEN set
    ELSE SetAddAll(SetAdd(set, Head(videoIds)), Tail(videoIds))

Video(id, playerRef) == [id |-> id, playerRef |-> playerRef]

VideoIds(vs) == {vs[i].id : i \in 1..Len(vs)}

\* every player of the list gets the call, each in a try of its own
CallEach(ps, hs, method, cause) ==
    [h \in 1..Len(ps) |-> IF h \in Range(hs) THEN Invoke(ps[h], method, cause) ELSE ps[h]]

\* forEach inside one try: the first call that throws ends the loop
\* (T: the players whose call throws)
UntilThrow(hs, T) ==
    LET I == {i \in 1..Len(hs) : hs[i] \in T}
    IN  IF I = {} THEN hs ELSE SubSeq(hs, 1, Min(I))

\* (a forEach whose try is around the whole loop)
MadeUntilThrow(hs, method, T) ==
    [i \in 1..Len(UntilThrow(hs, T)) |-> Made(hs[i], method, hs[i] \in T)]

\* forEach with the try inside the loop: every player gets its call
MadeEach(hs, method, T) ==
    [i \in 1..Len(hs) |-> Made(hs[i], method, hs[i] \in T)]

\* the destroyed players of a list: a call on any of them may throw
Dead(ps, hs) == {h \in Range(hs) : ps[h].dead}

\* Object.values(playersRef.current)
Values(ref) == [i \in 1..Len(ref) |-> ref[i].player]

\* script.onload of the YouTube iframe API
YouTubeApiLoaded(w) ==
    /\ ~ytReady[w]
    /\ ytReady' = [ytReady EXCEPT ![w] = TRUE]
    /\ calls' = Call("YouTubeApiLoaded", w, 0, "", << >>)
    /\ UNCHANGED <<winName, bcAvail, throws, slot, bcQueue, stQueue, clock,
                   winPlaying, winTime, seen, applied, published>>
    /\ UNCHANGED <<videos, players, playersRef, readyPlayers, readyQueued,
                   loopEnabled, job>>

\* channel.postMessage: every other BroadcastChannel object named 'viewsync'
\* gets the message; the listener of the posting context is such an object,
\* because broadcastSyncEvent posts through a channel of its own.
PostMessage(queue, event) == [w \in Wins |-> Append(queue[w], event)]

\* (contexts that listen for 'storage' whether or not they have a channel)
StorageEventsAlways(queue, w, item) ==
    [x \in Wins |-> IF x # w /\ item # slot THEN Append(queue[x], item) ELSE queue[x]]

\* localStorage.setItem: a storage event goes to every other context, if the
\* value changed; only a context that listens for 'storage' keeps it.
StorageEvents(queue, w, item) ==
    [x \in Wins |->
        IF x # w /\ item # slot /\ ~bcAvail THEN Append(queue[x], item) ELSE queue[x]]

\* the transports of the relay
Transports == {"channel", "storage"}

\* new BroadcastChannel(...).postMessage(event) throws: the catch of
\* broadcastSyncEvent is entered before localStorage.setItem
ChannelThrows == bcAvail /\ "channel" \in throws

\* localStorage.setItem is reached and throws
StorageThrows == ~ChannelThrows /\ "storage" \in throws

\* (a broadcastSyncEvent without its try/catch: the exception leaves the
\* caller before the statements that follow the call)
AfterBroadcastUncaught(hs) == IF ChannelThrows \/ StorageThrows THEN << >> ELSE hs

\* the players the caller goes on with after broadcastSyncEvent returned:
\* its catch holds every exception back
AfterBroadcast(hs) == hs

broadcastSyncEvent(w, eventType, data) ==
    LET event == SyncEvent(eventType, data, clock, Identity(winName[w]))
        posted == bcAvail /\ ~ChannelThrows
        stored == ~ChannelThrows /\ ~StorageThrows
    IN  /\ clock < MaxPub
        /\ clock' = clock + 1
        /\ bcQueue' = IF posted THEN PostMessage(bcQueue, event) ELSE bcQueue
        /\ slot' = IF stored THEN Stringify(event) ELSE slot
        /\ stQueue' = IF stored THEN StorageEvents(stQueue, w, Stringify(event)) ELSE stQueue
        /\ published' = Append(published, [event |-> event, by |-> w])

NoBroadcast == UNCHANGED <<clock, bcQueue, slot, stQueue, published>>

pauseAll(w) ==
    /\ ytReady[w]
    /\ winPlaying' = [winPlaying EXCEPT ![w] = FALSE]
    /\ broadcastSyncEvent(w, "pause", << >>)
    /\ players' = [players EXCEPT ![w] =
                      CallEach(@, AfterBroadcast(Values(playersRef[w])), "pauseVideo", "local")]
    /\ \E T \in SUBSET Dead(players[w], Values(playersRef[w])) :
           calls' = Call("pauseAll", w, 0, "", MadeEach(AfterBroadcast(Values(playersRef[w])), "pauseVideo", T))
    /\ UNCHANGED <<winName, bcAvail, throws, ytReady, winTime, seen, applied>>
    /\ UNCHANGED <<videos, playersRef, readyPlayers, readyQueued, loopEnabled, job>>

seekAll(w, time) ==
    /\ ytReady[w]
    /\ winTime' = [winTime EXCEPT ![w] = time]
    /\ broadcastSyncEvent(w, "seek", <<time>>)
    /\ players' = [players EXCEPT ![w] =
                      CallEach(@, AfterBroadcast(Values(playersRef[w])), "seekTo", "local")]
    /\ \E T \in SUBSET Dead(players[w], Values(playersRef[w])) :
           calls' = Call("seekAll", w, 0, "", MadeEach(AfterBroadcast(Values(playersRef[w])), "seekTo", T))
    /\ UNCHANGED <<winName, bcAvail, throws, ytReady, winPlaying, seen, applied>>
    /\ UNCHANGED <<videos, playersRef, readyPlayers, readyQueued, loopEnabled, job>>

MethodOf(type) ==
    CASE type = "play" -> "playVideo"
      [] type = "pause" -> "pauseVideo"
      [] OTHER -> "seekTo"

handleSyncEvent(w, event) ==
    \E T \in SUBSET Dead(players[w], Values(playersRef[w])) :
    LET hs == UntilThrow(Values(playersRef[w]), T)
    IN  /\ applied' = [applied EXCEPT ![w] = @ \cup {event}]
        /\ winPlaying' = [winPlaying EXCEPT ![w] =
                            CASE event.type = "play" -> TRUE
                              [] event.type = "pause" -> FALSE
                              [] OTHER -> @]
        /\ winTime' = [winTime EXCEPT ![w] =
                              IF event.type = "seek" THEN event.data[1] ELSE @]
        /\ players' = [players EXCEPT ![w] = CallEach(@, hs, MethodOf(event.type), "sync")]
        /\ calls' = Call("handleSyncEvent", w, 0, "",
                         MadeEach(hs, MethodOf(event.type), T))

\* the listener dropped the event
Dropped(w) ==
    /\ calls' = Call("dropped", w, 0, "", << >>)
    /\ UNCHANGED <<applied, winPlaying, winTime, players>>

\* (a listener that forgets to compare the origin)
BroadcastFilterNone(w, event) == TRUE

\* event.data && event.data.type && event.data.windowId !== (window.name || 'main')
BroadcastFilter(w, event) == event.windowId # Identity(winName[w])

\* event.windowId !== (window.name || 'main')
StorageFilter(w, event) == event.windowId # Identity(winName[w])

handleBroadcastMessage(w) ==
    /\ bcQueue[w] # << >>
    /\ LET event == Head(bcQueue[w])
       IN  /\ bcQueue' = [bcQueue EXCEPT ![w] = Tail(@)]
           /\ seen' = [seen EXCEPT ![w] = @ \cup {event}]
           /\ IF BroadcastFilter(w, event)
              THEN handleSyncEvent(w, event)
              ELSE Dropped(w)
    /\ UNCHANGED <<winName, bcAvail, throws, ytReady, slot, stQueue, clock, published>>
    /\ UNCHANGED <<videos, playersRef, readyPlayers, readyQueued, loopEnabled, job>>

\* (a listener that reads the slot, localStorage.getItem, when it is woken)
NewValueFromSlot(storageEvent) == slot

\* e.newValue: the value this storage event was raised for
NewValue(storageEvent) == storageEvent

handleStorageChange(w) ==
    /\ stQueue[w] # << >>
    /\ LET event == Parse(NewValue(Head(stQueue[w])))
       IN  /\ stQueue' = [stQueue EXCEPT ![w] = Tail(@)]
           /\ seen' = [seen EXCEPT ![w] = @ \cup {event}]
           /\ IF StorageFilter(w, event)
              THEN handleSyncEvent(w, event)
              ELSE Dropped(w)
    /\ UNCHANGED <<winName, bcAvail, throws, ytReady, slot, bcQueue, clock, published>>
    /\ UNCHANGED <<videos, playersRef, readyPlayers, readyQueued, loopEnabled, job>>

NextRelay ==
    \/ \E w \in Wins : YouTubeApiLoaded(w) /\ UNCHANGED otherVars
    \/ \E w \in Wins : pauseAll(w) /\ UNCHANGED otherVars
    \/ \E w \in Wins, t \in Times : seekAll(w, t) /\ UNCHANGED otherVars
    \/ \E w \in Wins : handleBroadcastMessage(w) /\ UNCHANGED otherVars
    \/ \E w \in Wins : handleStorageChange(w) /\ UNCHANGED otherVars

SpecRelay == InitRelay /\ [][NextRelay]_vars

\* ------------------------------------------------------ Playback Aggregator
\* addVideo: setVideos(prev => [...prev, newVideo]); the id of the new video
\* is the clip id extracted from the url, whether or not it is in the list.
addVideo(w, videoId) ==
    /\ Len(videos[w]) < Cardinality(Places)
    /\ videos' = [videos EXCEPT ![w] = Append(@, Video(videoId, 0))]
    /\ calls' = Call("addVideo", w, 0, "", << >>)
    /\ NoBroadcast
    /\ UNCHANGED <<winName, bcAvail, throws, ytReady, winPlaying, winTime, seen, applied>>
    /\ UNCHANGED <<players, playersRef, readyPlayers, readyQueued, loopEnabled, job>>

\* YouTubePlayer, initializePlayer: the component of videos[w][i] has no player,
\* or a destroyed one, and creates one.
initializePlayer(w, i) ==
    /\ ytReady[w]
    /\ i \in 1..Len(videos[w])
    /\ Len(players[w]) < Cardinality(Handles)
    /\ LET h == videos[w][i].playerRef
       IN  IF h = 0 THEN TRUE ELSE players[w][h].dead
    /\ players' = [players EXCEPT ![w] = Append(@, NewPlayer(videos[w][i].id))]
    /\ videos' = [videos EXCEPT ![w][i].playerRef = Len(players[w]) + 1]
    /\ calls' = Call("initializePlayer", w, Len(players[w]) + 1, "", << >>)
    /\ NoBroadcast
    /\ UNCHANGED <<winName, bcAvail, throws, ytReady, winPlaying, winTime, seen, applied>>
    /\ UNCHANGED <<playersRef, readyPlayers, readyQueued, loopEnabled, job>>

\* the cleanup of the effect of YouTubePlayer, run when its dependencies change
\* (onPlayerReady and onPlayerStateChange are new functions at every render of
\* App): the player is destroyed; playersRef is not told.
EffectCleanup(w, i) ==
    /\ i \in 1..Len(videos[w])
    /\ videos[w][i].playerRef # 0
    /\ ~players[w][videos[w][i].playerRef].dead
    /\ players' = [players EXCEPT ![w][videos[w][i].playerRef] = Destroyed(@)]
    /\ calls' = Call("cleanup", w, videos[w][i].playerRef, "", << >>)
    /\ NoBroadcast
    /\ UNCHANGED <<winName, bcAvail, throws, ytReady, winPlaying, winTime, seen, applied>>
    /\ UNCHANGED <<videos, playersRef, readyPlayers, readyQueued, loopEnabled, job>>

\* onReady of player h -> onPlayerReady(videoId, event)
onPlayerReady(w, h) ==
    /\ h \in 1..Len(players[w])
    /\ ~players[w][h].dead
    /\ ~players[w][h].ready
    /\ players' = [players EXCEPT ![w][h].ready = TRUE]
    /\ playersRef' = [playersRef EXCEPT ![w] = RefSet(@, players[w][h].videoId, h)]
    /\ readyQueued' = [readyQueued EXCEPT ![w] = Append(@, players[w][h].videoId)]
    /\ calls' = Call("onPlayerReady", w, h, "", << >>)
    /\ NoBroadcast
    /\ UNCHANGED <<winName, bcAvail, throws, ytReady, winPlaying, winTime, seen, applied>>
    /\ UNCHANGED <<videos, readyPlayers, loopEnabled, job>>

\* App renders again: the queued updaters of setReadyPlayers are applied, in
\* order, and the handlers see the new readyPlayers.
Render(w) ==
    /\ readyQueued[w] # << >>
    /\ readyPlayers' = [readyPlayers EXCEPT ![w] = SetAddAll(@, readyQueued[w])]
    /\ readyQueued' = [readyQueued EXCEPT ![w] = << >>]
    /\ calls' = Call("render", w, 0, "",
                     [i \in 1..Len(readyQueued[w]) |-> Made(0, "setReadyPlayers", FALSE)])
    /\ NoBroadcast
    /\ UNCHANGED <<winName, bcAvail, throws, ytReady, winPlaying, winTime, seen, applied>>
    /\ UNCHANGED <<videos, players, playersRef, loopEnabled, job>>

\* removeVideo, and the unmount of the components of the removed videos;
\* threw: destroy() of a player that is destroyed already threw
removeVideo(w, videoId, threw) ==
    LET ref == playersRef[w]
        has == RefHas(ref, videoId)
        unmounted == {videos[w][i].playerRef :
                         i \in {j \in 1..Len(videos[w]) : videos[w][j].id = videoId}} \ {0}
        gone == unmounted \cup (IF has THEN {RefGet(ref, videoId)} ELSE {})
    IN  /\ videoId \in VideoIds(videos[w])
        /\ IF threw THEN has /\ players[w][RefGet(ref, videoId)].dead ELSE TRUE
        /\ videos' = [videos EXCEPT ![w] = SelectSeq(@, LAMBDA v : v.id # videoId)]
        /\ players' = [players EXCEPT ![w] =
                          [h \in 1..Len(@) |->
                              IF h \in gone THEN Destroyed(@[h]) ELSE @[h]]]
        /\ playersRef' = [playersRef EXCEPT ![w] =
                             IF has /\ ~threw THEN RefDelete(@, videoId) ELSE @]
        /\ calls' = Call("removeVideo", w, 0, "",
                         IF has THEN <<Made(RefGet(ref, videoId), "destroy", threw)>>
                         ELSE << >>)
        /\ NoBroadcast
        /\ UNCHANGED <<winName, bcAvail, throws, ytReady, winPlaying, winTime, seen, applied>>
        /\ UNCHANGED <<readyPlayers, readyQueued, loopEnabled, job>>

\* setLoopEnabled(!loopEnabled)
toggleLoop(w) ==
    /\ loopEnabled' = [loopEnabled EXCEPT ![w] = ~@]
    /\ calls' = Call("toggleLoop", w, 0, "", << >>)
    /\ NoBroadcast
    /\ UNCHANGED <<winName, bcAvail, throws, ytReady, winPlaying, winTime, seen, applied>>
    /\ UNCHANGED <<videos, players, playersRef, readyPlayers, readyQueued, job>>

\* what the viewer does with the controls of the iframe, and what the media does
CanChange(from, to) ==
    CASE to = "PLAYING" -> from \in {"UNSTARTED", "CUED", "PAUSED", "ENDED", "BUFFERING"}
      [] to = "PAUSED" -> from \in {"PLAYING", "BUFFERING"}
      [] to = "ENDED" -> from = "PLAYING"
      [] to = "BUFFERING" -> from \in {"UNSTARTED", "CUED", "PAUSED", "PLAYING"}
      [] OTHER -> FALSE

PlayerStateChanges(w, h, state) ==
    /\ h \in 1..Len(players[w])
    /\ ~players[w][h].dead
    /\ players[w][h].ready
    /\ CanChange(players[w][h].state, state)
    /\ players' = [players EXCEPT ![w][h] = Changed(@, state, "local")]
    /\ calls' = Call("player", w, h, "", << >>)
    /\ NoBroadcast
    /\ UNCHANGED <<winName, bcAvail, throws, ytReady, winPlaying, winTime, seen, applied>>
    /\ UNCHANGED <<videos, playersRef, readyPlayers, readyQueued, loopEnabled, job>>

\* videos.length > 0 && videos[0].id === videoId
IsFirstVideo(w, h) ==
    Len(videos[w]) > 0 /\ videos[w][1].id = players[w][h].videoId

\* onStateChange of player h -> onPlayerStateChange(videoId, event)
onPlayerStateChange(w, h) ==
    LET p == players[w][h]
        heard == [p EXCEPT !.signal = FALSE]
        loops == p.state = "ENDED" /\ loopEnabled[w]
        \* const player = playersRef.current[videoId]; if (player) ...
        restarts == loops /\ RefHas(playersRef[w], p.videoId)
        target == RefGet(playersRef[w], p.videoId)
    IN  /\ h \in 1..Len(players[w])
        /\ ~p.dead
        /\ p.signal
        /\ winPlaying' = [winPlaying EXCEPT ![w] =
                             CASE p.state = "PLAYING" -> TRUE
                               [] p.state = "PAUSED" -> FALSE
                               [] OTHER -> @]
        /\ IF p.state \in {"PLAYING", "PAUSED"} /\ IsFirstVideo(w, h)
           THEN broadcastSyncEvent(w, IF p.state = "PLAYING" THEN "play" ELSE "pause",
                                   <<p.videoId>>)
           ELSE NoBroadcast
        /\ players' = [players EXCEPT ![w] =
                          IF restarts
                          THEN [[@ EXCEPT ![h] = heard] EXCEPT ![target] =
                                   Invoke(Invoke(@, "seekTo", "loop"), "playVideo", "loop")]
                          ELSE [@ EXCEPT ![h] = heard]]
        /\ calls' = Call("onPlayerStateChange", w, h, p.cause,
                         IF restarts
                         THEN <<Made(target, "seekTo", FALSE), Made(target, "playVideo", FALSE)>>
                         ELSE << >>)
        /\ UNCHANGED <<winName, bcAvail, throws, ytReady, winTime, seen, applied>>
        /\ UNCHANGED <<videos, playersRef, readyPlayers, readyQueued, loopEnabled, job>>

\* Array.from(readyPlayers).map(videoId => [videoId, playersRef.current[videoId]])
\*      .filter(([videoId, player]) => player != null)
FromReady(ready, ref) ==
    SelectSeq([i \in 1..Len(ready) |->
                  Entry(ready[i], IF RefHas(ref, ready[i]) THEN RefGet(ref, ready[i]) ELSE 0)],
              LAMBDA e : e.player # 0)

\* the players playAll will use
ReadyPlayersArray(ready, ref) ==
    LET first == IF Len(ready) > 0 THEN FromReady(ready, ref) ELSE ref
    IN  IF Len(first) = 0 THEN ref ELSE first

\* (a playAll that goes on with no player at all)
PlayAllNotReadyNever(w) == FALSE

\* the early returns of playAll
PlayAllNotReady(w) ==
    \/ ~ytReady[w]
    \/ Len(videos[w]) = 0
    \/ Len(readyPlayers[w]) = 0 /\ Len(playersRef[w]) = 0
    \/ Len(ReadyPlayersArray(readyPlayers[w], playersRef[w])) = 0

\* playAll up to the timer it sets; one playAll at a time.  The 500 ms timer
\* only sets the timers of the entries, from the array taken here.
\* accepted: the players whose playVideo() was called and returned, or that
\* were found playing; ready, registry: readyPlayers and playersRef at the call;
\* failed: the entries whose timer neither played nor counted; retries: per
\* entry, the later calls of playVideo().
playAll(w) ==
    /\ job[w].phase = "none"
    /\ IF PlayAllNotReady(w)
       THEN /\ calls' = Call("playAll", w, 0, "NotReady", << >>)
            /\ NoBroadcast
            /\ UNCHANGED <<winPlaying, job>>
       ELSE /\ winPlaying' = [winPlaying EXCEPT ![w] = TRUE]
            /\ broadcastSyncEvent(w, "play", << >>)
            /\ job' = [job EXCEPT ![w] =
                          [phase |-> "each",
                           entries |-> AfterBroadcast(ReadyPlayersArray(readyPlayers[w],
                                                                        playersRef[w])),
                           next |-> 1, playedCount |-> 0, waiting |-> {}, accepted |-> {},
                           failed |-> {},
                           retries |-> [i \in 1..Len(ReadyPlayersArray(readyPlayers[w],
                                                                        playersRef[w])) |-> 0],
                           ready |-> readyPlayers[w], registry |-> playersRef[w]]]
            /\ calls' = Call("playAll", w, 0, "", << >>)
    /\ UNCHANGED <<winName, bcAvail, throws, ytReady, winTime, seen, applied>>
    /\ UNCHANGED <<videos, players, playersRef, readyPlayers, readyQueued, loopEnabled>>

\* the timer of entry i is due index * 200 ms after the 500 ms timer, the
\* retry of an entry found buffering 500 ms after that
DueEntry(i) == (i - 1) * 200
DueWaiting(i) == (i - 1) * 200 + 500

\* (a count that takes every entry)
CountedAlways(p, threw) == TRUE

\* playedCount++: playVideo() was called and returned, or the player plays already
Counted(p, threw) == ~threw /\ p.state \in {"UNSTARTED", "PAUSED", "CUED", "PLAYING"}

\* the branches of the timer that only log: an exception, a state that is
\* not played
Fails(p, threw) == threw \/ p.state \in {"BUFFERING", "ENDED"}

\* the timer of the next entry.  A destroyed player keeps its methods and its
\* last state: getPlayerState() or playVideo() on it throws (threw), or they
\* return and do nothing.
playAllTimer(w, threw) ==
    LET j == job[w]
        h == j.entries[j.next].player
        p == players[w][h]
        plays == ~threw /\ p.state \in {"UNSTARTED", "PAUSED", "CUED"}
        waits == ~threw /\ p.state = "BUFFERING"
    IN  /\ j.phase = "each"
        /\ j.next <= Len(j.entries)
        /\ threw => p.dead
        /\ \A i \in j.waiting : DueEntry(j.next) < DueWaiting(i)
        /\ players' = [players EXCEPT ![w][h] =
                          IF plays THEN Invoke(@, "playVideo", "local") ELSE @]
        /\ job' = [job EXCEPT ![w] =
                      [j EXCEPT !.next = @ + 1,
                                !.playedCount = IF Counted(p, threw) THEN @ + 1 ELSE @,
                                !.waiting = IF waits THEN @ \cup {j.next} ELSE @,
                                !.failed = IF Fails(p, threw) THEN @ \cup {j.next} ELSE @,
                                !.accepted = IF Counted(p, threw) THEN @ \cup {h} ELSE @]]
        /\ calls' = Call("playAllTimer", w, h, "",
                         IF plays THEN <<Made(h, "playVideo", FALSE)>> ELSE << >>)
        /\ NoBroadcast
        /\ UNCHANGED <<winName, bcAvail, throws, ytReady, winPlaying, winTime, seen, applied>>
        /\ UNCHANGED <<videos, playersRef, readyPlayers, readyQueued, loopEnabled>>

\* the retry of an entry that was found buffering
playAllBufferingRetry(w, i) ==
    LET j == job[w]
        h == j.entries[i].player
        p == players[w][h]
    IN  /\ j.phase = "each"
        /\ i \in j.waiting
        /\ \A k \in j.next..Len(j.entries) : DueWaiting(i) < DueEntry(k)
        /\ \A k \in j.waiting : DueWaiting(i) <= DueWaiting(k)
        /\ players' = [players EXCEPT ![w][h] = Invoke(@, "playVideo", "local")]
        /\ job' = [job EXCEPT ![w] =
                      [j EXCEPT !.waiting = @ \ {i},
                                !.retries[i] = @ + 1,
                                !.accepted = IF p.dead THEN @ ELSE @ \cup {h}]]
        /\ calls' = Call("playAllBufferingRetry", w, h, "",
                         <<Made(h, "playVideo", FALSE)>>)
        /\ NoBroadcast
        /\ UNCHANGED <<winName, bcAvail, throws, ytReady, winPlaying, winTime, seen, applied>>
        /\ UNCHANGED <<videos, playersRef, readyPlayers, readyQueued, loopEnabled>>

\* the timer that logs 'Successfully triggered play on N videos', due
\* length * 100 + 1000 ms after the 500 ms timer
playAllResults(w) ==
    LET j == job[w]
    IN  /\ j.phase = "each"
        /\ j.next > Len(j.entries)
        /\ \A i \in j.waiting : Len(j.entries) * 100 + 1000 < DueWaiting(i)
        /\ job' = [job EXCEPT ![w] =
                      IF j.playedCount = 0
                      THEN [j EXCEPT !.phase = "retry", !.next = 1]
                      ELSE NoJob]
        /\ calls' = [op |-> "playAllResults", w |-> w, count |-> j.playedCount,
                      entries |-> j.entries, accepted |-> j.accepted,
                      failed |-> j.failed,
                      ready |-> j.ready, registry |-> j.registry]
        /\ NoBroadcast
        /\ UNCHANGED <<winName, bcAvail, throws, ytReady, winPlaying, winTime, seen, applied>>
        /\ UNCHANGED <<videos, players, playersRef, readyPlayers, readyQueued, loopEnabled>>

\* after playedCount === 0: the timer of the next entry of the second round;
\* threw: playVideo() of a destroyed player threw
playAllRetryTimer(w, threw) ==
    LET j == job[w]
        h == j.entries[j.next].player
        p == players[w][h]
    IN  /\ j.phase = "retry"
        /\ j.next <= Len(j.entries)
        /\ threw => p.dead
        /\ players' = [players EXCEPT ![w][h] = Invoke(@, "playVideo", "local")]
        /\ job' = [job EXCEPT ![w] =
                      [j EXCEPT !.next = @ + 1,
                                !.retries[j.next] = @ + 1,
                                !.playedCount = IF threw THEN @ ELSE @ + 1]]
        /\ calls' = Call("playAllRetryTimer", w, h, "",
                         <<Made(h, "playVideo", threw)>>)
        /\ NoBroadcast
        /\ UNCHANGED <<winName, bcAvail, throws, ytReady, winPlaying, winTime, seen, applied>>
        /\ UNCHANGED <<videos, playersRef, readyPlayers, readyQueued, loopEnabled>>

\* the last timer of the second round: alert if retryCount === 0
playAllRetryResults(w) ==
    LET j == job[w]
    IN  /\ j.phase = "retry"
        /\ j.next > Len(j.entries)
        /\ job' = [job EXCEPT ![w] = NoJob]
        /\ calls' = Call("playAllRetryResults", w, 0,
                         IF j.playedCount = 0 THEN "alert" ELSE "", << >>)
        /\ NoBroadcast
        /\ UNCHANGED <<winName, bcAvail, throws, ytReady, winPlaying, winTime, seen, applied>>
        /\ UNCHANGED <<videos, players, playersRef, readyPlayers, readyQueued,
                       loopEnabled>>

\* the context of AppWins is a tab the user opened, where clips are added; the
\* others are its named sync windows
InitApp ==
    /\ InitGateway
    /\ InitContexts([w \in Wins |-> IF w \in AppWins THEN "" ELSE SyncName(w)], TRUE)

\* a step of the viewer or of React on a player, where these are counted
EnvStep ==
    /\ envSteps < MaxEnv
    /\ envSteps' = envSteps + 1

\* playAll and its timers, in one context whose clips are distinct
NextPlayAll ==
    \/ \E w \in AppWins : YouTubeApiLoaded(w) /\ UNCHANGED otherVars
    \/ \E w \in AppWins : \E c \in Clips \ VideoIds(videos[w]) : addVideo(w, c) /\ UNCHANGED otherVars
    \/ \E w \in AppWins, i \in Places : initializePlayer(w, i) /\ UNCHANGED otherVars
    \/ \E w \in AppWins, i \in Places : EffectCleanup(w, i) /\ EnvStep /\ UNCHANGED <<serverVars, clientVars>>
    \/ \E w \in AppWins, h \in Handles : onPlayerReady(w, h) /\ UNCHANGED otherVars
    \/ \E w \in AppWins : Render(w) /\ UNCHANGED otherVars
    \/ \E w \in AppWins, c \in Clips, threw \in BOOLEAN : removeVideo(w, c, threw) /\ UNCHANGED otherVars
    \/ \E w \in AppWins, h \in Handles, st \in PlayerStates : PlayerStateChanges(w, h, st) /\ EnvStep /\ UNCHANGED <<serverVars, clientVars>>
    \/ \E w \in AppWins : playAll(w) /\ UNCHANGED otherVars
    \/ \E w \in AppWins, threw \in BOOLEAN : playAllTimer(w, threw) /\ UNCHANGED otherVars
    \/ \E w \in AppWins, i \in Places : playAllBufferingRetry(w, i) /\ UNCHANGED otherVars
    \/ \E w \in AppWins : playAllResults(w) /\ UNCHANGED otherVars
    \/ \E w \in AppWins, threw \in BOOLEAN : playAllRetryTimer(w, threw) /\ UNCHANGED otherVars
    \/ \E w \in AppWins : playAllRetryResults(w) /\ UNCHANGED otherVars

SpecPlayAll == InitApp /\ [][NextPlayAll]_vars

\* pauseAll and seekAll in one context, among players that come and go
NextCommands ==
    \/ \E w \in AppWins : YouTubeApiLoaded(w) /\ UNCHANGED otherVars
    \/ \E w \in AppWins, c \in Clips : addVideo(w, c) /\ UNCHANGED otherVars
    \/ \E w \in AppWins, i \in Places : initializePlayer(w, i) /\ UNCHANGED otherVars
    \/ \E w \in AppWins, i \in Places : EffectCleanup(w, i) /\ UNCHANGED otherVars
    \/ \E w \in AppWins, h \in Handles : onPlayerReady(w, h) /\ UNCHANGED otherVars
    \/ \E w \in AppWins, c \in Clips, threw \in BOOLEAN : removeVideo(w, c, threw) /\ UNCHANGED otherVars
    \/ \E w \in AppWins : pauseAll(w) /\ UNCHANGED otherVars
    \/ \E w \in AppWins, t \in Times : seekAll(w, t) /\ UNCHANGED otherVars

SpecCommands == InitApp /\ [][NextCommands]_vars

\* the signals of the players of one context
NextMaster ==
    \/ \E w \in AppWins : YouTubeApiLoaded(w) /\ UNCHANGED otherVars
    \/ \E w \in AppWins, c \in Clips : addVideo(w, c) /\ UNCHANGED otherVars
    \/ \E w \in AppWins, i \in Places : initializePlayer(w, i) /\ UNCHANGED otherVars
    \/ \E w \in AppWins, h \in Handles : onPlayerReady(w, h) /\ UNCHANGED otherVars
    \/ \E w \in AppWins, c \in Clips, threw \in BOOLEAN : removeVideo(w, c, threw) /\ UNCHANGED otherVars
    \/ \E w \in AppWins, h \in Handles, st \in PlayerStates : PlayerStateChanges(w, h, st) /\ UNCHANGED otherVars
    \/ \E w \in AppWins : toggleLoop(w) /\ UNCHANGED otherVars
    \/ \E w \in AppWins, h \in Handles : onPlayerStateChange(w, h) /\ UNCHANGED otherVars

SpecMaster == InitApp /\ [][NextMaster]_vars

\* a context with distinct clips, and the events of its sync windows, which
\* pause
NextEcho ==
    \/ \E w \in Wins : YouTubeApiLoaded(w) /\ UNCHANGED otherVars
    \/ \E w \in AppWins : \E c \in Clips \ VideoIds(videos[w]) : addVideo(w, c) /\ UNCHANGED otherVars
    \/ \E w \in AppWins, i \in Places : initializePlayer(w, i) /\ UNCHANGED otherVars
    \/ \E w \in AppWins, i \in Places : EffectCleanup(w, i) /\ EnvStep /\ UNCHANGED <<serverVars, clientVars>>
    \/ \E w \in AppWins, h \in Handles : onPlayerReady(w, h) /\ UNCHANGED otherVars
    \/ \E w \in AppWins, h \in Handles, st \in PlayerStates : PlayerStateChanges(w, h, st) /\ EnvStep /\ UNCHANGED <<serverVars, clientVars>>
    \/ \E w \in AppWins, h \in Handles : onPlayerStateChange(w, h) /\ UNCHANGED otherVars
    \/ \E w \in Wins \ AppWins : pauseAll(w) /\ UNCHANGED otherVars
    \/ \E w \in Wins : handleBroadcastMessage(w) /\ UNCHANGED otherVars

SpecEcho == InitApp /\ [][NextEcho]_vars

\* the publish counter and the histories are read by no handler: forgetting
\* them changes nothing a context does, and lets a behaviour go on after
\* MaxPub publishes
Forget ==
    /\ clock = MaxPub
    /\ clock' = 0
    /\ published' = << >>
    /\ seen' = [w \in Wins |-> {}]
    /\ applied' = [w \in Wins |-> {}]
    /\ UNCHANGED <<winName, bcAvail, throws, ytReady, slot, bcQueue, stQueue, winPlaying, winTime>>
    /\ UNCHANGED <<videos, players, playersRef, readyPlayers, readyQueued,
                   loopEnabled, job, calls>>

\* an action of a viewer, one of finitely many: at most one per context
UserStep ==
    /\ envSteps < NWin
    /\ envSteps' = envSteps + 1

\* what the viewer can do to a player inside its iframe
UserStates == {"PLAYING", "PAUSED"}

\* the steps a browser takes by itself: a queued message is delivered, a
\* state change of a player is reported
Delivers(w) == handleBroadcastMessage(w) /\ UNCHANGED otherVars

Reports(w, h) == onPlayerStateChange(w, h) /\ UNCHANGED otherVars

\* contexts with one clip each, whose viewers play and pause
NextQuiesce ==
    \/ \E w \in Wins : YouTubeApiLoaded(w) /\ UNCHANGED otherVars
    \/ \E w \in Wins : \E c \in Clips : Len(videos[w]) = 0 /\ addVideo(w, c) /\ UNCHANGED otherVars
    \/ \E w \in Wins, i \in Places : initializePlayer(w, i) /\ UNCHANGED otherVars
    \/ \E w \in Wins, h \in Handles : onPlayerReady(w, h) /\ UNCHANGED otherVars
    \/ \E w \in Wins, h \in Handles, st \in UserStates : PlayerStateChanges(w, h, st) /\ UserStep /\ UNCHANGED <<serverVars, clientVars>>
    \/ \E w \in Wins : pauseAll(w) /\ UserStep /\ UNCHANGED <<serverVars, clientVars>>
    \/ \E w \in Wins, h \in Handles : Reports(w, h)
    \/ \E w \in Wins : Delivers(w)
    \/ Forget /\ UNCHANGED otherVars

\* the event loop of a context runs every task that is queued
FairQuiesce ==
    /\ \A w \in Wins : WF_vars(Delivers(w))
    /\ \A w \in Wins : \A h \in Handles : WF_vars(Reports(w, h))
    /\ WF_vars(Forget /\ UNCHANGED otherVars)

SpecQuiesce == InitApp /\ [][NextQuiesce]_vars /\ FairQuiesce

\* a browser in which any of the transports may throw
InitDegraded ==
    /\ InitGateway
    /\ \E broadcastChannel \in BOOLEAN, thrown \in SUBSET Transports :
           InitContextsWhere([w \in Wins |-> IF w \in AppWins THEN "" ELSE SyncName(w)],
                             broadcastChannel, thrown)

\* the three commands of a context, in such a browser
NextDegraded ==
    \/ \E w \in AppWins : YouTubeApiLoaded(w) /\ UNCHANGED otherVars
    \/ \E w \in AppWins : \E c \in Clips \ VideoIds(videos[w]) : addVideo(w, c) /\ UNCHANGED otherVars
    \/ \E w \in AppWins, i \in Places : initializePlayer(w, i) /\ UNCHANGED otherVars
    \/ \E w \in AppWins, h \in Handles : onPlayerReady(w, h) /\ UNCHANGED otherVars
    \/ \E w \in AppWins : Render(w) /\ UNCHANGED otherVars
    \/ \E w \in AppWins : pauseAll(w) /\ UNCHANGED otherVars
    \/ \E w \in AppWins, t \in Times : seekAll(w, t) /\ UNCHANGED otherVars
    \/ \E w \in AppWins : playAll(w) /\ UNCHANGED otherVars
    \/ \E w \in AppWins : playAllTimer(w, FALSE) /\ UNCHANGED otherVars
    \/ \E w \in AppWins : playAllResults(w) /\ UNCHANGED otherVars

SpecDegraded == InitDegraded /\ [][NextDegraded]_vars

\* ======================================================================
\* Properties of the registry and the gateway
\* ======================================================================
Commands == {"play", "pause", "seek", "change-video"}

ErrorTo(socket) == {Msg(socket, "error", NoSnapshot, NoUser, << >>, 0, "")}

Recipients == {m.to : m \in out}

\* C1: every room that exists has exactly one participant with isHost = TRUE.
C1_ExactlyOneHost ==
    \A r \in DOMAIN rooms : Cardinality(Hosts(rooms[r].users)) = 1

C3_RoomExistsOnlyWhileNonEmpty ==
    /\ \A r \in DOMAIN rooms : Len(rooms[r].users) > 0
    /\ deleted \cap DOMAIN rooms = {}
    /\ (last.op = "join-room" /\ last.roomId \in deleted) => out = ErrorTo(last.socket)

\* A join-room named a room that a disconnect had deleted.
C3_Witness ==
    /\ last.op = "join-room"
    /\ last.roomId \in deleted

\* C4: a join-room naming a room that is not in the registry answers the caller
\* with an error and with nothing else, and changes neither the rooms nor the
\* channels.
C4_JoinMissingRoomIsRefused ==
    [][(last'.op = "join-room" /\ last'.roomId \notin DOMAIN rooms)
          => /\ rooms' = rooms
             /\ channel' = channel
             /\ out' = ErrorTo(last'.socket)]_vars

\* A join-room was refused while another room, with a participant, exists.
C4_Witness ==
    /\ last.op = "join-room"
    /\ last.roomId \notin DOMAIN rooms
    /\ out = ErrorTo(last.socket)
    /\ \E r \in DOMAIN rooms : SocketIds(rooms[r].users) \ {last.socket} # {}

\* C5: a command applied to an existing room is delivered to every participant
\* of the room other than the sender, and not to the sender.
C5_MulticastExcludesSender ==
    (last.op \in Commands /\ last.roomId \in DOMAIN rooms)
        => Recipients = SocketIds(rooms[last.roomId].users) \ {last.socket}

\* C6: a connection that has disconnected is a participant of no room.
C6_DisconnectedInNoRoom ==
    \A c \in Conns \ connected : \A r \in DOMAIN rooms :
        c \notin SocketIds(rooms[r].users)

\* C7: after change-video on an existing room the room holds the given
\* reference, is not playing, and is at position 0.
C7_ChangeVideoResets ==
    (last.op = "change-video" /\ last.roomId \in DOMAIN rooms)
        => LET room == rooms[last.roomId]
               cmd == cmdLog[last.roomId][Len(cmdLog[last.roomId])]
           IN  /\ cmd.kind = "change-video"
               /\ room.videoUrl = cmd.videoUrl
               /\ room.isPlaying = FALSE
               /\ room.currentTime = 0

\* The media was changed in a room that was playing at position 1.
C7_Witness ==
    /\ last.op = "change-video" /\ last.roomId \in DOMAIN rooms
    /\ LET log == cmdLog[last.roomId]
       IN  /\ Len(log) >= 2
           /\ log[Len(log) - 1].kind = "play"
           /\ log[Len(log) - 1].currentTime = 1
           /\ rooms[last.roomId].videoUrl = "b"

\* the index of the last command of a room's log whose kind is in K, or 0
LastOf(log, K) ==
    LET I == {i \in 1..Len(log) : log[i].kind \in K}
    IN  IF I = {} THEN 0 ELSE CHOOSE i \in I : \A j \in I : j <= i

\* C8: a room's state is the one of last-applied-wins over the commands applied
\* to it: the position is the one of the last command (0 for change-video), and
\* playing is decided by the last play, pause or change-video.
C8_LastAppliedWins ==
    \A r \in DOMAIN rooms :
        LET log == cmdLog[r]
            p == LastOf(log, Commands)
            q == LastOf(log, {"play", "pause", "change-video"})
        IN  /\ rooms[r].currentTime =
                   IF p = 0 \/ log[p].kind = "change-video" THEN 0 ELSE log[p].currentTime
            /\ rooms[r].isPlaying = (q # 0 /\ log[q].kind = "play")

\* A play at 0 was followed by a seek to 1: the room plays at position 1.
C8_Witness ==
    \E r \in DOMAIN rooms :
        /\ Len(cmdLog[r]) = 2
        /\ cmdLog[r][1].kind = "play" /\ cmdLog[r][1].currentTime = 0
        /\ cmdLog[r][2].kind = "seek" /\ cmdLog[r][2].currentTime = 1
        /\ rooms[r].isPlaying /\ rooms[r].currentTime = 1

\* C9: when no event of the gateway is in flight, every connected participant
\* of a room has applied the room's authoritative play/pause state and position.
C9_RoomConverges ==
    (\A c \in Conns : inbox[c] = << >>)
        => \A r \in DOMAIN rooms :
               \A c \in SocketIds(rooms[r].users) \cap connected :
                   local[c] = Playback(rooms[r].isPlaying, rooms[r].currentTime)

\* C10: no context has passed to handleSyncEvent an event whose windowId is
\* its own identity.
C10_NeverAppliesOwnEvent ==
    \A w \in Wins : \A e \in applied[w] : e.windowId # Identity(winName[w])

\* On the storage transport, a context received an event that carries its own
\* identity (from another unnamed tab) and did not apply it.
C10_Witness ==
    /\ ~bcAvail
    /\ \E w \in Wins : \E e \in seen[w] :
           /\ e.windowId = Identity(winName[w])
           /\ e \notin applied[w]

\* ======================================================================
\* Properties of the Local Relay
\* ======================================================================
\* the events published by a context other than w
PublishedByOthers(w) ==
    {published[i].event : i \in {j \in 1..Len(published) : published[j].by # w}}

\* C11: with BroadcastChannel available, once no message is in flight every
\* event published by a context has been applied by every other context.
C11_PrimaryReachesEveryOtherContext ==
    (bcAvail /\ \A w \in Wins : bcQueue[w] = << >>)
        => \A w \in Wins : PublishedByOthers(w) \subseteq applied[w]

\* C12: a publish in a browser with BroadcastChannel leaves the slot
\* localStorage['viewsync_event'] as it was.
C12_SlotWrittenOnlyOnFallback ==
    [][(bcAvail /\ published' # published) => slot' = slot]_vars

C14_PlayAllWithoutPlayersIsNotReady ==
    [][(calls'.op = "playAll" /\ Len(playersRef[calls'.w]) = 0)
          => /\ calls'.cause = "NotReady"
             /\ calls'.made = << >>
             /\ players' = players
             /\ job' = job
             /\ published' = published /\ bcQueue' = bcQueue /\ slot' = slot
             /\ winPlaying' = winPlaying]_vars

\* playAll returned early in a context where the API is loaded, a video is in
\* the list and readyPlayers still names a removed clip.
C14_Witness ==
    /\ calls.op = "playAll" /\ calls.cause = "NotReady"
    /\ ytReady[calls.w]
    /\ Len(videos[calls.w]) > 0
    /\ Len(readyPlayers[calls.w]) > 0
    /\ Len(playersRef[calls.w]) = 0

RefIds(ref) == {ref[i].videoId : i \in 1..Len(ref)}

\* at the call of playAll: players are registered and none of them is in
\* readyPlayers / one of them is
NoneReady(ready, registry) ==
    Len(registry) > 0 /\ Range(ready) \cap RefIds(registry) = {}

SomeReady(ready, registry) == Range(ready) \cap RefIds(registry) # {}

\* the API is loaded and the list of videos is not empty
Loaded(w) == ytReady[w] /\ Len(videos[w]) > 0

PlayAllTimers == {"playAllTimer", "playAllBufferingRetry", "playAllRetryTimer"}

Masters(w) == {h \in 1..Len(players[w]) : ~players[w][h].dead /\ IsFirstVideo(w, h)}

\* C17: onPlayerStateChange publishes only for the player of the first video
\* of the list, and at most one live player is master.
C17_OnlyTheFirstSurfacePublishes ==
    [][/\ (calls'.op = "onPlayerStateChange" /\ published' # published)
           => /\ Len(videos[calls'.w]) > 0
              /\ calls'.player = videos[calls'.w][1].playerRef
       /\ \A w \in Wins : Cardinality(Masters(w)) <= 1]_vars

\* C18: the PLAYING change that follows the seekTo(0) and playVideo() of a
\* loop restart is not published.
C18_LoopRestartIsNotPublished ==
    [][(calls'.op = "onPlayerStateChange" /\ calls'.cause = "loop")
           => published' = published]_vars

\* C19: pauseAll and seekAll call pauseVideo / seekTo on every player of
\* playersRef, in its order, also after a call that threw, and every live
\* player of playersRef takes the call.
C19_EveryRegisteredPlayerIsCalled ==
    [][calls'.op \in {"pauseAll", "seekAll"}
           => LET w == calls'.w
                  hs == Values(playersRef[w])
                  method == IF calls'.op = "pauseAll" THEN "pauseVideo" ELSE "seekTo"
              IN  /\ Len(calls'.made) = Len(hs)
                  /\ \A i \in 1..Len(hs) :
                         /\ calls'.made[i].player = hs[i]
                         /\ calls'.made[i].method = method
                  /\ \A h \in Range(hs) :
                         ~players[w][h].dead
                             => players'[w][h] = Invoke(players[w][h], method, "local")]_vars

\* a call of a destroyed player threw and the player after it was called
C19_Witness ==
    /\ calls.op \in {"pauseAll", "seekAll"}
    /\ \E i, k \in 1..Len(calls.made) :
           /\ i < k
           /\ calls.made[i].threw
           /\ ~calls.made[k].threw
           /\ ~players[calls.w][calls.made[k].player].dead

\* C20: handleSyncEvent publishes nothing, and neither does the handling of
\* the player state changes that its playVideo / pauseVideo / seekTo cause.
C20_AppliedEventIsNotRepublished ==
    [][(\/ calls'.op = "handleSyncEvent"
        \/ calls'.op = "onPlayerStateChange" /\ calls'.cause = "sync")
           => published' = published]_vars

\* no event is on its way, no state change of a player is still to be
\* reported, and every context has the same isPlaying
Quiescent ==
    /\ \A w \in Wins : bcQueue[w] = << >> /\ stQueue[w] = << >>
    /\ \A w \in Wins : \A h \in 1..Len(players[w]) :
           ~(players[w][h].signal /\ ~players[w][h].dead)
    /\ \A w \in Wins : winPlaying[w] = winPlaying[1]

\* C21: after the finitely many actions of the viewers the relay comes to
\* rest: from some point on nothing is in flight and all contexts agree on
\* isPlaying.
C21_RelayQuiesces == <>[]Quiescent

\* player h of context w was destroyed and its clip is no longer in videos
Removed(w, h) ==
    players[w][h].dead /\ players[w][h].videoId \notin VideoIds(videos[w])

\* C22: no timer of playAll calls a player that was removed since playAll
\* set the timer.
C22_TimersSkipRemovedPlayers ==
    [][calls'.op \in PlayAllTimers
           => \A i \in 1..Len(calls'.made) :
                  ~Removed(calls'.w, calls'.made[i].player)]_vars

\* C23: when the timers of one playAll are over, every entry whose timer
\* failed (exception, no playVideo, BUFFERING or another state that is not
\* played) got exactly one later playVideo(), and no entry got more than two
\* calls of playVideo() in all.
C23_ExactlyOneRetryPerFailure ==
    [][\A w \in Wins :
           (job[w].phase # "none" /\ job'[w].phase = "none")
               => \A i \in 1..Len(job[w].entries) :
                      /\ i \in job[w].failed => job[w].retries[i] = 1
                      /\ i \notin job[w].failed => job[w].retries[i] <= 1
                      /\ job[w].retries[i] <= 2]_vars

\* C24: the timer of an entry calls playVideo() on a live player that is
\* UNSTARTED, PAUSED or CUED whatever happened to the entries before it; when
\* the count is logged every entry has had its timer, and the count leaves
\* out exactly the entries that failed.
C24_FailureIsLocalAndNotCounted ==
    [][/\ calls'.op = "playAllTimer"
           => LET p == players[calls'.w][calls'.player]
              IN  (~p.dead /\ p.state \in {"UNSTARTED", "PAUSED", "CUED"})
                      => calls'.made = <<Made(calls'.player, "playVideo", FALSE)>>
       /\ calls'.op = "playAllResults"
           => /\ job[calls'.w].next = Len(calls'.entries) + 1
              /\ calls'.count = Len(calls'.entries) - Cardinality(calls'.failed)
              /\ \A i \in calls'.failed : calls'.entries[i].player \notin
                     {calls'.entries[k].player : k \in (1..Len(calls'.entries)) \ calls'.failed}]_vars

\* an entry failed, and a later entry was played and counted
C24_Witness ==
    /\ calls.op = "playAllResults"
    /\ \E i \in calls.failed : \E k \in (1..Len(calls.entries)) \ calls.failed :
           /\ i < k
           /\ calls.entries[k].player \in calls.accepted
    /\ calls.count = 1

\* C25: handleSyncEvent calls the method of the event on every player of
\* playersRef, also after a call that threw.
C25_SyncEventReachesEveryPlayer ==
    [][calls'.op = "handleSyncEvent"
           => LET hs == Values(playersRef[calls'.w])
              IN  /\ Len(calls'.made) = Len(hs)
                  /\ \A i \in 1..Len(hs) : calls'.made[i].player = hs[i]]_vars

\* C26: no onReady is lost.  The clip of every live player that signalled is
\* in readyPlayers, or in an update that is still queued, and playersRef
\* holds that player; a render moves every queued update into readyPlayers.
C26_NoReadyUpdateIsLost ==
    [][/\ \A w \in Wins : \A h \in 1..Len(players'[w]) :
              (players'[w][h].ready /\ ~players'[w][h].dead)
                  => /\ players'[w][h].videoId
                            \in Range(readyPlayers'[w]) \cup Range(readyQueued'[w])
                     /\ RefHas(playersRef'[w], players'[w][h].videoId)
                     /\ RefGet(playersRef'[w], players'[w][h].videoId) = h
       /\ calls'.op = "render"
              => /\ readyQueued'[calls'.w] = << >>
                 /\ Range(readyPlayers'[calls'.w])
                        = Range(readyPlayers[calls'.w]) \cup Range(readyQueued[calls'.w])]_vars

\* how many times x is in the sequence
Occurrences(seq, x) == Cardinality({i \in 1..Len(seq) : seq[i] = x})

\* C27: a context gets events from one transport only, and every published
\* event is, for each context, in flight at most once or received at most
\* once, never both: no handler is given the same event twice.
C27_OneTransportAndAtMostOnce ==
    \A w \in Wins :
        /\ bcAvail => stQueue[w] = << >>
        /\ ~bcAvail => bcQueue[w] = << >>
        /\ \A i \in 1..Len(published) :
               LET e == published[i].event
               IN  Occurrences(bcQueue[w], e) + Occurrences(stQueue[w], Stringify(e))
                       + (IF e \in seen[w] THEN 1 ELSE 0) <= 1

\* the event was posted and written to the slot, and a context applied it
C27_Witness ==
    /\ bcAvail
    /\ \E w \in Wins : \E e \in applied[w] : slot = Stringify(e)
    /\ \A w \in Wins : bcQueue[w] = << >>

\* the channel is missing or throws, and localStorage.setItem throws
NeitherUsable == (~bcAvail \/ "channel" \in throws) /\ "storage" \in throws

\* C28: with no usable transport a publish leaves nothing in the relay, and
\* pauseAll, seekAll and playAll still set their state and go on to the
\* players: pauseVideo / seekTo for every player of playersRef, the timers of
\* playAll for the players it chose, playVideo() from those timers.
C28_PublishFailureIsContained ==
    [][NeitherUsable =>
        /\ (bcQueue' = bcQueue /\ slot' = slot /\ stQueue' = stQueue)
        /\ calls'.op = "pauseAll"
               => /\ ~winPlaying'[calls'.w]
                  /\ Len(calls'.made) = Len(playersRef[calls'.w])
                  /\ \A h \in RefPlayers(playersRef[calls'.w]) :
                         players'[calls'.w][h] = Invoke(players[calls'.w][h], "pauseVideo", "local")
        /\ calls'.op = "seekAll"
               => /\ <<winTime'[calls'.w]>> = published'[Len(published')].event.data
                  /\ Len(calls'.made) = Len(playersRef[calls'.w])
                  /\ \A h \in RefPlayers(playersRef[calls'.w]) :
                         players'[calls'.w][h] = Invoke(players[calls'.w][h], "seekTo", "local")
        /\ (calls'.op = "playAll" /\ calls'.cause # "NotReady")
               => /\ winPlaying'[calls'.w]
                  /\ job'[calls'.w].phase = "each"
                  /\ job'[calls'.w].entries
                         = ReadyPlayersArray(readyPlayers[calls'.w], playersRef[calls'.w])
                  /\ job'[calls'.w].entries # << >>
        /\ calls'.op = "playAllTimer"
               => players'[calls'.w][calls'.player]
                      = Invoke(players[calls'.w][calls'.player], "playVideo", "local")]_vars

\* with no usable transport: a player was paused by pauseAll, or played by a
\* timer of playAll
C28_Witness ==
    /\ NeitherUsable
    /\ slot = NoItem
    /\ Len(published) > 0
    /\ \/ /\ calls.op = "pauseAll"
          /\ \E i \in 1..Len(calls.made) :
                 players[calls.w][calls.made[i].player].state = "PAUSED"
       \/ /\ calls.op = "playAllTimer"
          /\ calls.made # << >>
          /\ players[calls.w][calls.player].state = "PLAYING"

\* the sockets of the messages of the last handler that carry event ev
Receivers(ev) == {m.to : m \in {x \in out : x.ev = ev}}

\* C29: after a join-room of an existing room the joiner has room-joined
\* with the room's state, every other participant of the room has
\* user-joined, and both carry the participants of the room in join order,
\* the joiner among them.
C29_JoinNotifiesEveryParticipant ==
    (last.op = "join-room" /\ Receivers("error") = {})
        => LET roomId == last.roomId
               users == rooms[roomId].users
           IN  /\ Receivers("room-joined") = {last.socket}
               /\ Receivers("user-joined") = SocketIds(users) \ {last.socket}
               /\ \A m \in out :
                      /\ m.users = users
                      /\ m.user = UsersGet(users, last.socket)
                      /\ m.ev = "room-joined" => m.room = RoomSnapshot(roomId, rooms[roomId])
               /\ [i \in 1..Len(users) |-> users[i].socketId] = joinLog[roomId]

\* C30: when a socket disconnects, in every room it was a participant of and
\* that keeps participants each of them gets user-left with the participants
\* that remain, the leaver not among them and, if the leaver was the host,
\* the first of them as host; when nobody remains in it no notification is
\* sent.
C30_DisconnectNotifiesTheRemainder ==
    [][last'.op = "disconnect"
           => LET left == {roomId \in DOMAIN rooms : UsersHas(rooms[roomId].users, last'.socket)}
                  leaver(roomId) == UsersGet(rooms[roomId].users, last'.socket)
                  rest(roomId) == UsersDelete(rooms[roomId].users, last'.socket)
              IN  /\ {m.to : m \in out'} = UNION {SocketIds(rest(roomId)) : roomId \in left}
                  /\ \A m \in out' :
                         /\ m.ev = "user-left"
                         /\ \E roomId \in left \cap DOMAIN rooms' :
                                /\ m.to \in SocketIds(rest(roomId))
                                /\ m.user = leaver(roomId)
                                /\ m.users = rooms'[roomId].users
                                /\ SocketIds(m.users) = SocketIds(rest(roomId))
                                /\ leaver(roomId).isHost => Hosts(m.users) = {m.users[1].socketId}]_vars

\* the events that carry a playback command
CommandOps == {"play", "pause", "seek", "change-video"}

\* C31: a playback command that names a room the registry does not hold
\* changes no room, is multicast to nobody, and is answered to its sender,
\* and to nobody else, with an error.
C31_UnknownRoomCommandIsReported ==
    [][(last'.op \in CommandOps /\ last'.roomId \notin DOMAIN rooms)
           => /\ rooms' = rooms
              /\ \A m \in out' : m.ev = "error" /\ m.to = last'.socket
              /\ \E m \in out' : m.ev = "error" /\ m.to = last'.socket]_vars

\* the sockets that are participants of a room of the registry
Participants(rs, roomId) ==
    IF roomId \in DOMAIN rs THEN SocketIds(rs[roomId].users) ELSE {}

\* the events sent in answer to their sender alone
Replies == {"error", "room-joined", "room-created"}

\* C32: a command, join or disconnect that concerns one room leaves every
\* other room as it was (playback state, clip and participants), and what it
\* multicasts goes to participants of that room only.
C32_RoomsAreIsolated ==
    [][last'.op \in CommandOps \cup {"join-room", "disconnect"}
           => /\ \A roomId \in (DOMAIN rooms) \ {last'.roomId} :
                     roomId \in DOMAIN rooms' /\ rooms'[roomId] = rooms[roomId]
              /\ \A m \in out' :
                     m.ev \notin Replies => m.to \in Participants(rooms', last'.roomId)]_vars

\* a command on one room has been multicast while a connected socket is a
\* participant of the other room only
C32_Witness ==
    /\ last.op \in CommandOps
    /\ out # {}
    /\ \E s \in connected, roomId \in (DOMAIN rooms) \ {last.roomId} :
           /\ s \in Participants(rooms, roomId)
           /\ s \notin Participants(rooms, last.roomId)

\* C33: a connection is a participant of one room at most, and so holds
\* one participant record at most.
C33_OneRoomPerConnection ==
    \A s \in Conns : Cardinality({roomId \in DOMAIN rooms : s \in Participants(rooms, roomId)}) <= 1

\* C34: playersRef holds no destroyed player, and every clip in readyPlayers
\* is the clip of a player that has signalled and has not been destroyed.
C34_DestroyedIsForgotten ==
    \A w \in Wins :
        /\ \A h \in Range(Values(playersRef[w])) : ~players[w][h].dead
        /\ \A videoId \in Range(readyPlayers[w]) :
               \E h \in 1..Len(players[w]) :
                   /\ players[w][h].videoId = videoId
                   /\ players[w][h].ready
                   /\ ~players[w][h].dead

====
